---- MODULE Spec2Model ----
(***************************************************************************)
(* Model of ez_aws/so7z.py: SmartOpen7z (archive handle, decompress_file,  *)
(* decompress_all) and SmartOpen7zStream (the one-shot stream iterator:    *)
(* __init__, get_archive_file, move_fp_to_correct_spot, __next__).         *)
(*                                                                         *)
(* The collaborators the source only calls are modelled at their           *)
(* interface.  The py7zr header parser yields the catalog (files, folders, *)
(* pack positions).  The block decoder is the "copy" coder: it hands back  *)
(* the payload bytes found at the byte source's position, any number       *)
(* between none and the number asked for.  calculate_crc32 is a            *)
(* width-reduced chained polynomial checksum that, like CRC-32, detects    *)
(* every change of a single byte.                                          *)
(***************************************************************************)
EXTENDS Integers, Sequences, FiniteSets, TLC

\* Streams the caller creates with get_stream, beside the one that
\* decompress_file creates for itself.
NumStreams == 1
\* Largest payload index at which a byte may be corrupted (0 = intact):
\* it reaches the first file of every archive of the model.
MaxCorrupt == 2
\* The chunk-size limit the specification asks of a pull, in model bytes.
ChunkMax == 2

\* Calls of move on one stream.
MaxMoves == 1
\* Largest full_size handed to move.
MaxFullSize == 3

\* self.afterheader: where the payload begins; also worker.src_start.
afterheader == 4

\* file.crc32 of an entry without a stream (py7zr: None).
NoCrc == -1

\* get_archive_file's result when no entry has the name (implicit None).
NoFile == 0

----------------------------------------------------------------------------
(* The catalog, as py7zr's header parser hands it over.                    *)

Entry(n, l) == [filename |-> n, uncompressed |-> l]

\* Folder F0 = [x, y (empty), z] of the specification's scenario, and a
\* second folder.
SolidLayout ==
  << << Entry("x", 2), Entry("y", 0), Entry("z", 3) >>,
     << Entry("w", 1) >> >>

\* An archive in which the name "x" is stored twice, in different folders.
DupLayout ==
  << << Entry("x", 1), Entry("y", 2) >>,
     << Entry("z", 1), Entry("x", 2) >> >>

\* An archive in which the name "x" is stored twice in one folder.
TwiceLayout ==
  << << Entry("x", 1), Entry("y", 1), Entry("x", 2) >> >>

Layouts == {SolidLayout, DupLayout, TwiceLayout}

Names == {"x", "y", "z", "w", "q"}

RECURSIVE SumLen(_)
SumLen(es) ==
  IF es = << >> THEN 0 ELSE Head(es).uncompressed + SumLen(Tail(es))

RECURSIVE PackPositions(_, _)
\* packinfo.packpositions: the running sum of the folders' packed sizes.
PackPositions(layout, acc) ==
  IF layout = << >> THEN << acc >>
  ELSE << acc >> \o PackPositions(Tail(layout), acc + SumLen(Head(layout)))

\* The payload of an intact archive: byte p of the packed stream.
Byte(p) == p % 4

Payload(layout, corrupt) ==
  [p \in 1..SumLen([i \in 1..Len(layout) |-> Entry("", SumLen(layout[i]))]) |->
     IF p = corrupt THEN (Byte(p) + 1) % 4 ELSE Byte(p)]

RECURSIVE calculate_crc32(_, _)
\* py7zr.helpers.calculate_crc32(data, value): chained over the chunks.
calculate_crc32(data, crc) ==
  IF data = << >> THEN crc
  ELSE calculate_crc32(Tail(data), (crc * 5 + Head(data) + 1) % 31)

RECURSIVE FolderFiles(_, _, _, _)
\* The ArchiveFile records of one folder, in decode order: id is the place
\* in the catalog, off the number of payload bytes before the file.  An
\* entry without a stream has no folder (None, here 0) and no digest.
FolderFiles(es, fi, off, id) ==
  IF es = << >> THEN << >>
  ELSE LET e == Head(es)
           l == e.uncompressed
       IN << [id |-> id,
              filename |-> e.filename,
              folder |-> IF l = 0 THEN 0 ELSE fi,
              uncompressed |-> l,
              emptystream |-> (l = 0),
              crc32 |-> IF l = 0 THEN NoCrc
                        ELSE calculate_crc32([p \in 1..l |-> Byte(off + p)], 0)] >>
          \o FolderFiles(Tail(es), fi, off + l, id + 1)

RECURSIVE FolderList(_, _, _, _)
\* folder.files of every folder (header.main_streams.unpackinfo.folders).
FolderList(layout, fi, off, id) ==
  IF layout = << >> THEN << >>
  ELSE << FolderFiles(Head(layout), fi, off, id) >>
          \o FolderList(Tail(layout), fi + 1, off + SumLen(Head(layout)),
                        id + Len(Head(layout)))

RECURSIVE Flatten(_)
Flatten(ss) == IF ss = << >> THEN << >> ELSE Head(ss) \o Flatten(Tail(ss))

\* SmartOpen7z._real_get_contents: files in catalog order, folders with their
\* file lists, the pack positions and the payload behind the header.
MkArchive(layout, corrupt) ==
  [files |-> Flatten(FolderList(layout, 1, 0, 1)),
   folders |-> FolderList(layout, 1, 0, 1),
   packpositions |-> PackPositions(layout, 0),
   packed |-> Payload(layout, corrupt),
   corrupt |-> corrupt]

Archives == {MkArchive(l, c) : l \in Layouts, c \in 0..MaxCorrupt}

\* A catalog that disagrees with itself: the entry id is missing from the
\* file list of folder fi.
Drop(arch, fi, id) ==
  [arch EXCEPT !.folders[fi] = SelectSeq(@, LAMBDA f : f.id # id)]

\* Inconsistent catalogs: "z" missing from its folder and listed nowhere;
\* the first "x" missing from its folder while the other folder lists an "x".
InconsistentArchives ==
  {Drop(MkArchive(SolidLayout, c), 1, 3) : c \in 0..MaxCorrupt}
    \cup {Drop(MkArchive(DupLayout, c), 1, 1) : c \in 0..MaxCorrupt}

----------------------------------------------------------------------------
(* SmartOpen7zStream: construction and positioning.                        *)

Min(a, b) == IF a < b THEN a ELSE b

\* worker.src_start (Worker(self.files, self.afterheader, self.header)).
src_start == afterheader

\* src_end = worker.src_start + packpositions[-1].
src_end(arch) == src_start + arch.packpositions[Len(arch.packpositions)]

\* Faulty variant: a name no entry has is answered with the first entry.
get_archive_file_default(files, name) ==
  LET hits == {i \in 1..Len(files) : files[i].filename = name}
  IN IF hits = {} THEN 1
     ELSE CHOOSE i \in hits : \A j \in hits : i <= j

\* for archive_file in self.smartOpen7z.files: the first entry of that name,
\* None when the loop falls through.
get_archive_file(files, name) ==
  LET hits == {i \in 1..Len(files) : files[i].filename = name}
  IN IF hits = {} THEN NoFile
     ELSE CHOOSE i \in hits : \A j \in hits : i <= j

\* The folder loop of move_fp_to_correct_spot: folder_position is assigned
\* for every folder holding a file of that name, so the last one stays.
\* 0 when no folder holds one (folder_position is never bound).
PositionFolder(arch, filename) ==
  LET hits == {i \in 1..Len(arch.folders) :
                 \E j \in 1..Len(arch.folders[i]) :
                    arch.folders[i][j].filename = filename}
  IN IF hits = {} THEN 0
     ELSE CHOOSE i \in hits : \A j \in hits : j <= i

RECURSIVE Walk(_, _, _)
\* The walk over folder.files: the number of decoded bytes worker._check
\* discards.  Each file of the target's name hands the pending just_check
\* list to _check and empties it; any other file with a stream is appended.
Walk(fs, filename, just_check) ==
  IF fs = << >> THEN 0
  ELSE IF Head(fs).filename = filename
       THEN SumLen(just_check) + Walk(Tail(fs), filename, << >>)
       ELSE IF ~Head(fs).emptystream
            THEN Walk(Tail(fs), filename, Append(just_check, Head(fs)))
            ELSE Walk(Tail(fs), filename, just_check)

\* worker._check(fp, just_check, src_end): the decoder reads and drops n
\* decoded bytes, taken here as dropped without being judged; the byte
\* source ends at src_end.
Discard(arch, pos, n) == Min(pos + n, src_end(arch))

\* move_fp_to_correct_spot: [seek |-> the offset sought, fp |-> the position
\* after the walk, discarded |-> the decoded bytes dropped]; with
\* folder_position never bound, line 237 raises UnboundLocalError before
\* any seek.
move_fp_to_correct_spot(arch, af) ==
  LET file == arch.files[af]
      i == PositionFolder(arch, file.filename)
      start == src_start + arch.packpositions[i]
      n == Walk(arch.folders[file.folder], file.filename, << >>)
  IN IF i = 0
     THEN [raised |-> "UnboundLocalError", seek |-> 0, fp |-> 0,
           discarded |-> 0]
     ELSE [raised |-> "", seek |-> start, fp |-> Discard(arch, start, n),
           discarded |-> n]

\* A stream before get_stream has built it.
NoStream ==
  [phase |-> "absent", name |-> "", archiveFile |-> NoFile, crc32 |-> 0,
   out_remaining |-> 0, discarded |-> 0, emitted |-> << >>,
   ret |-> "unpulled", retLen |-> 0, start_pct |-> 0,
   report_progress |-> FALSE, start_time |-> FALSE]

\* SmartOpen7zStream.__init__: a fresh SmartOpen7z (its handle is left at
\* afterheader), the entry looked up by name, the counters, and positioning
\* when the entry has bytes.  A name no entry has makes archiveFile None and
\* the read of its .uncompressed raise AttributeError.  Nothing on a
\* failing path closes the handle.  start_time tells whether the attribute
\* is bound: __init__ does not bind it.
SmartOpen7zStream(arch, name, report_progress) ==
  LET af == get_archive_file(arch.files, name)
      opened == [fp |-> afterheader, seeks |-> << afterheader >>]
  IN IF af = NoFile
     THEN [stream |-> [NoStream EXCEPT !.phase = "AttributeError",
                                       !.name = name],
           handle |-> opened]
     ELSE LET rem == arch.files[af].uncompressed
              base == [NoStream EXCEPT !.phase = "open", !.name = name,
                                       !.archiveFile = af, !.crc32 = 0,
                                       !.out_remaining = rem,
                                       !.report_progress = report_progress]
          IN IF rem > 0
             THEN LET m == move_fp_to_correct_spot(arch, af)
                  IN IF m.raised # ""
                     THEN [stream |-> [base EXCEPT !.phase = m.raised],
                           handle |-> opened]
                     ELSE [stream |-> [base EXCEPT
                                         !.discarded = m.discarded],
                           handle |-> [fp |-> m.fp,
                                       seeks |-> << afterheader, m.seek >>]]
             ELSE [stream |-> base, handle |-> opened]

----------------------------------------------------------------------------
(* SmartOpen7zStream.__next__.                                             *)

\* The max_length the pull hands the decoder: self.out_remaining.
Request(sr) == sr.out_remaining

\* What the decoder can hand back for a request of n at position pos.
Readable(arch, pos, n) ==
  IF pos >= src_end(arch) \/ n <= 0 THEN 0 ELSE Min(n, src_end(arch) - pos)

\* self.decompressor.decompress(self.fp, n) handing back k bytes.
decompress(arch, pos, k) == [i \in 1..k |-> arch.packed[pos - src_start + i]]

\* Faulty variant: the comparison never finds a difference.
ChecksumNeverDiffers(arch, sr) == FALSE

\* self.crc32 != self.archiveFile.crc32
ChecksumDiffers(arch, sr) == sr.crc32 # arch.files[sr.archiveFile].crc32

\* Faulty variant: no entry is taken for empty.
EmptyEntryNever(file) == FALSE

\* if self.archiveFile.uncompressed==0 (the else branch of __next__)
EmptyEntry(file) == file.uncompressed = 0

\* Faulty variant: the checksum is started again with every chunk.
checksum_restarted(tmp, crc) == calculate_crc32(tmp, 0)

\* self.crc32 = py7zr.helpers.calculate_crc32(tmp, self.crc32)
update_checksum(tmp, crc) == calculate_crc32(tmp, crc)

\* Faulty variant: raising also clears the running checksum.
raise_and_clear(sr, pos, e) ==
  [stream |-> [sr EXCEPT !.ret = e, !.retLen = 0, !.crc32 = 0],
   fp |-> pos, value |-> << >>]

\* raise StopIteration / raise ChecksumIncorrectError(...): the else branch
\* of __next__ assigns no attribute and reads no byte; only what the caller
\* gets (ret) is recorded.
raise(sr, pos, e) ==
  [stream |-> [sr EXCEPT !.ret = e, !.retLen = 0],
   fp |-> pos, value |-> << >>]

\* self.pct_complete = 1-(self.out_remaining / self.archiveFile.uncompressed)
\* followed by "if self.pct_complete>0".
pct_complete_positive(arch, sr) ==
  sr.out_remaining < arch.files[sr.archiveFile].uncompressed

\* One pull, the decoder handing back k bytes: the stream and its handle's
\* position afterwards.  ret is what the caller gets: a chunk (value), None
\* (the method falls off its end), StopIteration or ChecksumIncorrectError.
\* With report_progress the projection reads self.start_time, which only
\* __iter__ binds: unbound, the read raises AttributeError before the
\* decoder is asked.
__next__(arch, sr, pos, k) ==
  IF sr.out_remaining > 0
  THEN IF sr.report_progress /\ pct_complete_positive(arch, sr)
          /\ ~sr.start_time
       THEN raise(sr, pos, "AttributeError")
       ELSE LET tmp == decompress(arch, pos, k)
            IN IF Len(tmp) > 0
               THEN [stream |-> [sr EXCEPT !.out_remaining = @ - Len(tmp),
                                           !.crc32 = update_checksum(tmp, @),
                                           !.emitted = @ \o tmp,
                                           !.ret = "chunk",
                                           !.retLen = Len(tmp)],
                     fp |-> pos + k,
                     value |-> tmp]
               ELSE [stream |-> [sr EXCEPT !.ret = "None", !.retLen = 0],
                     fp |-> pos, value |-> << >>]
  ELSE IF EmptyEntry(arch.files[sr.archiveFile])
       THEN raise(sr, pos, "StopIteration")
       ELSE IF ChecksumDiffers(arch, sr)
            THEN raise(sr, pos, "ChecksumIncorrectError")
            ELSE raise(sr, pos, "StopIteration")

----------------------------------------------------------------------------
(* SmartOpen7z.decompress_file and decompress_all.                         *)

\* Faulty variant: no entry is skipped.
SkipFileNever(file) == FALSE

\* if file.uncompressed==0: ... continue
SkipFile(file) == file.uncompressed = 0

\* smart_open.open(uri = smart_open_output_url, mode='wb'): a new, empty
\* sink; decompress_all names it out_folder_url + "/" + file.filename.
OpenSink(name) == [url |-> name, data |-> << >>]

\* Faulty variant: the chunk is put in front of what the sink holds.
write_in_front(data, chunk) == chunk \o data

\* fout.write(chunk)
write(data, chunk) == data \o chunk

----------------------------------------------------------------------------
(* State.                                                                  *)

VARIABLES
  archive,   \* the archive behind smart_open_uri
  stream,    \* the SmartOpen7zStream objects
  fp,        \* position of each byte-source handle
  seeks,     \* offsets each handle was sought to, in order
  ext,       \* the running decompress_file / decompress_all call
  sinks,     \* the sinks opened so far, in order, with what was written
  isopen,    \* whether each byte-source handle is open
  moves      \* the calls of move made on each stream

vars == << archive, stream, fp, seeks, ext, sinks, isopen, moves >>

\* Streams the caller holds; the stream decompress_file iterates is 0.
Streams == 1..NumStreams
AllStreams == 0..NumStreams

\* Faulty variant: every stream reads through one shared handle.
HandleShared(s) == 0

\* self.smartOpen7z = SmartOpen7z(...); self.fp = self.smartOpen7z.fp:
\* each stream reads through the handle it opened itself.
HandleOf(s) == s

\* No stream built, no handle opened, no extraction running.
Fresh ==
  /\ stream = [s \in AllStreams |-> NoStream]
  /\ fp = [s \in AllStreams |-> 0]
  /\ seeks = [s \in AllStreams |-> << >>]
  /\ ext = [pc |-> "idle", mode |-> "", idx |-> 0, err |-> "",
            report_progress |-> FALSE]
  /\ sinks = << >>
  /\ isopen = [s \in AllStreams |-> FALSE]
  /\ moves = [s \in AllStreams |-> 0]

Init ==
  /\ archive \in Archives
  /\ Fresh

\* The stream s built anew for name, through its own handle, which
\* smart_open.open opens (line 51).
Build(s, name, report_progress) ==
  LET r == SmartOpen7zStream(archive, name, report_progress)
  IN /\ stream' = [stream EXCEPT ![s] = r.stream]
     /\ fp' = [fp EXCEPT ![HandleOf(s)] = r.handle.fp]
     /\ seeks' = [seeks EXCEPT ![HandleOf(s)] = r.handle.seeks]
     /\ isopen' = [isopen EXCEPT ![HandleOf(s)] = TRUE]

\* SmartOpen7z.get_stream(archive_file_name, report_progress)
get_stream(s, name, report_progress) ==
  /\ stream[s].phase = "absent"
  /\ Build(s, name, report_progress)
  /\ UNCHANGED << archive, ext, sinks, moves >>

\* next(stream), the decoder handing back k bytes
Pull(s) ==
  /\ stream[s].phase = "open"
  /\ \E k \in 0..Readable(archive, fp[HandleOf(s)], Request(stream[s])) :
       LET r == __next__(archive, stream[s], fp[HandleOf(s)], k)
       IN /\ stream' = [stream EXCEPT ![s] = r.stream]
          /\ fp' = [fp EXCEPT ![HandleOf(s)] = r.fp]
  /\ UNCHANGED << archive, seeks, ext, sinks, isopen, moves >>

\* SmartOpen7zStream.__iter__: self.start_time = time.time(); return self.
\* Only a stream that was constructed can be iterated.
__iter__(sr) ==
  IF sr.phase = "open" THEN [sr EXCEPT !.start_time = TRUE] ELSE sr

\* decompress_file up to its first pull: the sink is opened, then the
\* stream is built and the for statement calls iter on it; a failing
\* construction leaves through the with block.
StartFile(name, mode, idx, report_progress) ==
  LET r == SmartOpen7zStream(archive, name, report_progress)
  IN /\ sinks' = Append(sinks, OpenSink(name))
     /\ stream' = [stream EXCEPT ![0] = __iter__(r.stream)]
     /\ fp' = [fp EXCEPT ![HandleOf(0)] = r.handle.fp]
     /\ seeks' = [seeks EXCEPT ![HandleOf(0)] = r.handle.seeks]
     /\ isopen' = [isopen EXCEPT ![HandleOf(0)] = TRUE]
     /\ ext' = IF r.stream.phase = "open"
               THEN [pc |-> "file", mode |-> mode, idx |-> idx, err |-> "",
                     report_progress |-> report_progress]
               ELSE [pc |-> "raised", mode |-> mode, idx |-> idx,
                     err |-> r.stream.phase,
                     report_progress |-> report_progress]

\* decompress_file(archive_file_name, smart_open_output_url, report_progress)
decompress_file(name, report_progress) ==
  /\ ext.pc = "idle"
  /\ StartFile(name, "file", 0, report_progress)
  /\ UNCHANGED << archive, moves >>

\* One turn of "for chunk in stream: fout.write(chunk)": a chunk is
\* written; None makes fout.write raise TypeError; StopIteration ends the
\* loop; ChecksumIncorrectError leaves decompress_file (and decompress_all).
decompress_file_loop ==
  /\ ext.pc = "file"
  /\ \E k \in 0..Readable(archive, fp[HandleOf(0)], Request(stream[0])) :
       LET r == __next__(archive, stream[0], fp[HandleOf(0)], k)
           ret == r.stream.ret
       IN /\ stream' = [stream EXCEPT ![0] = r.stream]
          /\ fp' = [fp EXCEPT ![HandleOf(0)] = r.fp]
          /\ sinks' = IF ret = "chunk"
                      THEN [sinks EXCEPT ![Len(sinks)].data =
                              write(@, r.value)]
                      ELSE sinks
          /\ ext' = CASE ret = "chunk" -> ext
                      [] ret = "None" ->
                           [ext EXCEPT !.pc = "raised", !.err = "TypeError"]
                      [] ret = "StopIteration" ->
                           IF ext.mode = "all"
                           THEN [ext EXCEPT !.pc = "all", !.idx = @ + 1]
                           ELSE [ext EXCEPT !.pc = "returned"]
                      [] OTHER ->
                           [ext EXCEPT !.pc = "raised", !.err = ret]
  /\ UNCHANGED << archive, seeks, isopen, moves >>

\* decompress_all(out_folder_url, report_progress)
decompress_all(report_progress) ==
  /\ ext.pc = "idle"
  /\ ext' = [pc |-> "all", mode |-> "all", idx |-> 1, err |-> "",
             report_progress |-> report_progress]
  /\ UNCHANGED << archive, stream, fp, seeks, sinks, isopen, moves >>

\* One turn of "for file in self.files": an entry of size 0 is skipped, any
\* other is handed to decompress_file; the loop's end returns.
decompress_all_loop ==
  /\ ext.pc = "all"
  /\ IF ext.idx > Len(archive.files)
     THEN /\ ext' = [ext EXCEPT !.pc = "returned"]
          /\ UNCHANGED << stream, fp, seeks, sinks, isopen >>
     ELSE IF SkipFile(archive.files[ext.idx])
          THEN /\ ext' = [ext EXCEPT !.idx = @ + 1]
               /\ UNCHANGED << stream, fp, seeks, sinks, isopen >>
          ELSE StartFile(archive.files[ext.idx].filename, "all", ext.idx,
                         ext.report_progress)
  /\ UNCHANGED << archive, moves >>

\* The program with report_progress left at its default, False.
Next ==
  \/ \E s \in Streams, name \in Names : get_stream(s, name, FALSE)
  \/ \E s \in Streams : Pull(s)
  \/ \E name \in Names : decompress_file(name, FALSE)
  \/ decompress_file_loop
  \/ decompress_all(FALSE)
  \/ decompress_all_loop

Spec == Init /\ [][Next]_vars

----------------------------------------------------------------------------
(* Progress reporting: report_progress=True, and iter(stream) called by    *)
(* the holder of a stream.                                                 *)

\* iter(stream) on a stream the caller holds
Iterate(s) ==
  /\ stream[s].phase = "open"
  /\ stream' = [stream EXCEPT ![s] = __iter__(@)]
  /\ UNCHANGED << archive, fp, seeks, ext, sinks, isopen, moves >>

NextProgress ==
  \/ Next
  \/ \E s \in Streams, name \in Names : get_stream(s, name, TRUE)
  \/ \E s \in Streams : Iterate(s)
  \/ \E name \in Names : decompress_file(name, TRUE)
  \/ decompress_all(TRUE)

SpecProgress == Init /\ [][NextProgress]_vars

----------------------------------------------------------------------------
(* Start-from-percentage streaming: get_stream_portion, set_start_pct and  *)
(* move.  Percentages are written in hundredths.                           *)

Pcts == {50, 100}

\* to_move = int(full_size * pct)
to_move(pct, full_size) == (full_size * pct) \div 100

\* set_start_pct(start_pct): three prints; the stream is left as it was.
set_start_pct(sr, start_pct) == [sr EXCEPT !.start_pct = start_pct]

\* SmartOpen7z.get_stream_portion(archive_file_name, start_pct):
\* get_stream, then set_start_pct on a stream that was built.
get_stream_portion(s, name, start_pct) ==
  /\ stream[s].phase = "absent"
  /\ LET r == SmartOpen7zStream(archive, name, FALSE)
     IN /\ stream' = [stream EXCEPT ![s] =
                        IF r.stream.phase = "open"
                        THEN set_start_pct(r.stream, start_pct)
                        ELSE r.stream]
        /\ fp' = [fp EXCEPT ![HandleOf(s)] = r.handle.fp]
        /\ seeks' = [seeks EXCEPT ![HandleOf(s)] = r.handle.seeks]
        /\ isopen' = [isopen EXCEPT ![HandleOf(s)] = TRUE]
  /\ UNCHANGED << archive, ext, sinks, moves >>

\* SmartOpen7zStream.move(pct, full_size): the handle is sought forward by
\* to_move from where it stands and out_remaining is lowered by to_move.
move(s, pct, full_size) ==
  /\ stream[s].phase = "open"
  /\ moves[s] < MaxMoves
  /\ LET h == HandleOf(s)
         n == to_move(pct, full_size)
     IN /\ fp' = [fp EXCEPT ![h] = n + fp[h]]
        /\ seeks' = [seeks EXCEPT ![h] = Append(@, n + fp[h])]
        /\ stream' = [stream EXCEPT ![s].out_remaining = @ - n]
  /\ moves' = [moves EXCEPT ![s] = @ + 1]
  /\ UNCHANGED << archive, ext, sinks, isopen >>

NextPortion ==
  \/ Next
  \/ \E s \in Streams, name \in Names, pct \in Pcts :
       get_stream_portion(s, name, pct)
  \/ \E s \in Streams, pct \in Pcts, full_size \in 1..MaxFullSize :
       move(s, pct, full_size)

\* The program with start-from-percentage streaming in use.
SpecPortion == Init /\ [][NextPortion]_vars

\* The program handed a catalog that disagrees with itself.
InitInconsistent ==
  /\ archive \in InconsistentArchives
  /\ Fresh

SpecInconsistent == InitInconsistent /\ [][Next]_vars

----------------------------------------------------------------------------
(* Properties.                                                             *)

\* The entry a stream was built for.
File(s) == archive.files[stream[s].archiveFile]

Built(s) == stream[s].phase = "open"

Ended(s) == stream[s].ret \in {"StopIteration", "ChecksumIncorrectError"}

Intact == archive.corrupt = 0

\* C1: a stream of a non-empty entry that has been pulled to its end has
\* emitted exactly uncompressed bytes, and on an intact archive its
\* checksum equals the entry's and it has ended with StopIteration.
C1_FullStream ==
  \A s \in AllStreams :
    (Built(s) /\ File(s).uncompressed > 0 /\ Ended(s)) =>
      /\ Len(stream[s].emitted) = File(s).uncompressed
      /\ Intact => /\ stream[s].crc32 = File(s).crc32
                   /\ stream[s].ret = "StopIteration"

\* C2: a stream of a non-empty entry ends only with nothing remaining, and
\* it ends with StopIteration exactly when the checksum of the bytes it
\* emitted is the entry's, with ChecksumIncorrectError otherwise.
C2_NoSilentSuccess ==
  \A s \in AllStreams :
    (Built(s) /\ File(s).uncompressed > 0 /\ Ended(s)) =>
      /\ stream[s].out_remaining = 0
      /\ stream[s].crc32 = calculate_crc32(stream[s].emitted, 0)
      /\ (stream[s].ret = "StopIteration") <=>
            (calculate_crc32(stream[s].emitted, 0) = File(s).crc32)

\* C2 witness: a corrupted entry streamed to its end was rejected.
C2_Witness ==
  \E s \in AllStreams :
    /\ Built(s) /\ File(s).uncompressed > 0
    /\ stream[s].ret = "ChecksumIncorrectError"
    /\ Len(stream[s].emitted) = File(s).uncompressed
    /\ ~Intact

\* C3: a stream of an entry of size 0 has sought nowhere beyond the
\* opening of its handle, has discarded and emitted nothing, and a pull
\* on it gives StopIteration, never a checksum error.
C3_EmptyEntry ==
  \A s \in AllStreams :
    (Built(s) /\ File(s).uncompressed = 0) =>
      /\ seeks[HandleOf(s)] = << afterheader >>
      /\ fp[HandleOf(s)] = afterheader
      /\ stream[s].discarded = 0
      /\ stream[s].emitted = << >>
      /\ stream[s].ret \in {"unpulled", "StopIteration"}

\* C3 witness: an empty entry's stream was pulled and completed.
C3_Witness ==
  \E s \in AllStreams :
    /\ Built(s) /\ File(s).uncompressed = 0
    /\ stream[s].ret = "StopIteration"

\* The decoded bytes that precede an entry in its folder: the sizes of the
\* folder's files listed before it.
Preceding(arch, file) ==
  SumLen(SelectSeq(arch.folders[file.folder], LAMBDA f : f.id < file.id))

C5_NotFound ==
  \A s \in AllStreams :
    (stream[s].phase # "absent"
       /\ \A i \in 1..Len(archive.files) :
            archive.files[i].filename # stream[s].name) =>
      /\ stream[s].phase = "AttributeError"
      /\ stream[s].archiveFile = NoFile
      /\ fp[HandleOf(s)] = afterheader
      /\ seeks[HandleOf(s)] = << afterheader >>

\* C5 witness: a stream was asked for the name "q", which no archive has.
C5_Witness ==
  \E s \in AllStreams :
    /\ stream[s].name = "q"
    /\ stream[s].phase = "AttributeError"

\* C6: a pull gives a non-empty chunk (only with bytes remaining), or
\* StopIteration or ChecksumIncorrectError (only with none remaining); it
\* never gives an empty or absent value.
C6_PullOutcomes ==
  \A s \in AllStreams :
    (Built(s) /\ stream[s].ret # "unpulled") =>
      /\ Len(stream[s].emitted) + stream[s].out_remaining
           = File(s).uncompressed
      /\ \/ stream[s].ret = "chunk" /\ stream[s].retLen > 0
         \/ Ended(s) /\ stream[s].out_remaining = 0

\* C7: no pull asks the decoder for more than ChunkMax bytes, and no chunk
\* is longer, whatever the size of the entry.
C7_ChunkBounded ==
  \A s \in AllStreams :
    Built(s) =>
      /\ stream[s].retLen <= ChunkMax
      /\ Request(stream[s]) <= ChunkMax

IsPrefix(a, b) == Len(a) <= Len(b) /\ a = SubSeq(b, 1, Len(a))

\* C8: two streams built for the same name of the same archive are both
\* built or both not; what one has emitted is a prefix of what the other
\* has, and once both have ended they have emitted the same bytes and
\* ended the same way.
C8_Deterministic ==
  \A s, t \in AllStreams :
    (stream[s].phase # "absent" /\ stream[t].phase # "absent"
       /\ stream[s].name = stream[t].name) =>
      /\ stream[s].phase = stream[t].phase
      /\ \/ IsPrefix(stream[s].emitted, stream[t].emitted)
         \/ IsPrefix(stream[t].emitted, stream[s].emitted)
      /\ (Ended(s) /\ Ended(t)) =>
           /\ stream[s].emitted = stream[t].emitted
           /\ stream[s].ret = stream[t].ret

\* C8 witness: two streams of one non-empty entry have both ended.
C8_Witness ==
  \E s, t \in AllStreams :
    /\ s # t /\ Built(s) /\ Built(t)
    /\ stream[s].name = stream[t].name
    /\ Ended(s) /\ Ended(t)
    /\ Len(stream[s].emitted) > 1

\* The names of the non-empty entries among the first n of the catalog.
NonEmptyNames(files, n) ==
  LET kept == SelectSeq(SubSeq(files, 1, n), LAMBDA f : f.uncompressed > 0)
  IN [i \in 1..Len(kept) |-> kept[i].filename]

\* The entries decompress_all has reached: the one being extracted counts.
Visited ==
  IF ext.pc \in {"file", "raised"} THEN ext.idx
  ELSE Min(ext.idx - 1, Len(archive.files))

\* C9: during decompress_all the sinks opened so far are those of the
\* non-empty entries reached so far, in catalog order, none for an entry of
\* size 0; when decompress_all returns, every entry has been reached.
C9_CatalogOrder ==
  ext.mode = "all" =>
    /\ [i \in 1..Len(sinks) |-> sinks[i].url]
         = NonEmptyNames(archive.files, Visited)
    /\ ext.pc = "returned" => Visited = Len(archive.files)

\* C9 witness: decompress_all has returned from the archive with an empty
\* entry between two non-empty ones, each of the three non-empty entries
\* with its sink.
C9_Witness ==
  /\ ext.mode = "all" /\ ext.pc = "returned"
  /\ \E i \in 1..Len(archive.files) : archive.files[i].uncompressed = 0
  /\ Len(sinks) = 3

\* C10: the sink of decompress_file holds the chunks its stream produced,
\* in order, and nothing else; a ChecksumIncorrectError of the stream is
\* raised to the caller with the sink's bytes still in place.
C10_SinkContent ==
  sinks # << >> =>
    /\ sinks[Len(sinks)].url = stream[0].name
    /\ sinks[Len(sinks)].data = stream[0].emitted
    /\ stream[0].ret = "ChecksumIncorrectError" =>
         /\ ext.pc = "raised"
         /\ ext.err = "ChecksumIncorrectError"
         /\ Len(sinks[Len(sinks)].data) = File(0).uncompressed

\* C10 witness: decompress_file raised ChecksumIncorrectError after the
\* sink received more than one byte.
C10_Witness ==
  /\ ext.pc = "raised" /\ ext.err = "ChecksumIncorrectError"
  /\ sinks # << >>
  /\ Len(sinks[Len(sinks)].data) > 1

\* C11: a stream obtained with a start percentage for a non-empty entry
\* stands, before its first pull, with fewer than uncompressed bytes
\* remaining, and its handle has been sought nowhere but to the start of
\* the folder: the leading bytes are not skipped by moving the handle.
C11_PortionSkips ==
  \A s \in Streams :
    (Built(s) /\ stream[s].start_pct > 0 /\ File(s).uncompressed > 0) =>
      /\ stream[s].ret = "unpulled" =>
           stream[s].out_remaining < File(s).uncompressed
      /\ Len(seeks[HandleOf(s)]) = 2

\* Whether the entry is on the file list of the folder it records.
Listed(arch, file) ==
  \E j \in 1..Len(arch.folders[file.folder]) :
     arch.folders[file.folder][j].id = file.id

\* C12: a stream asked for a non-empty entry that is missing from the file
\* list of its own folder is not built: construction fails before a byte
\* is emitted.
C12_CatalogInconsistency ==
  \A s \in AllStreams :
    (stream[s].archiveFile # NoFile /\ File(s).uncompressed > 0
       /\ ~Listed(archive, File(s))) =>
      /\ ~Built(s)
      /\ stream[s].emitted = << >>

\* C13: once a stream has ended, or its construction has failed, the
\* byte-source handle opened for it is closed.
C13_Released ==
  \A s \in AllStreams :
    (Ended(s) \/ stream[s].phase \in {"AttributeError", "UnboundLocalError"})
      => ~isopen[HandleOf(s)]

\* What stream s has emitted and where its handle stands, told from the
\* archive and the name alone: the bytes that follow the position its
\* construction left the handle at.
RunAlone(s) ==
  LET start == SmartOpen7zStream(archive, stream[s].name, FALSE).handle.fp
      n == Len(stream[s].emitted)
  IN /\ stream[s].emitted = decompress(archive, start, n)
     /\ fp[HandleOf(s)] = start + n

\* A step that changes stream s leaves every other stream's fields (its
\* out_remaining, crc32, emitted) and its handle's position as they were.
PullIndependent ==
  \A s \in AllStreams : \A t \in AllStreams \ {s} :
    stream'[s] # stream[s] =>
      /\ stream'[t] = stream[t]
      /\ fp'[HandleOf(t)] = fp[HandleOf(t)]

\* C14: each stream has its own handle and cursor: under any interleaving a
\* pull on one stream changes neither the handle position, the remaining
\* count nor the running checksum of another, and each stream has emitted
\* the bytes it emits when run alone.
C14_Independent ==
  /\ [](\A s \in AllStreams : Built(s) => RunAlone(s))
  /\ [][PullIndependent]_vars

\* C14 witness: two streams are open at once, both have emitted bytes and
\* neither has ended.
C14_Witness ==
  \E s, t \in AllStreams :
    /\ s # t /\ Built(s) /\ Built(t)
    /\ stream[s].emitted # << >> /\ stream[t].emitted # << >>
    /\ stream[s].out_remaining > 0 /\ stream[t].out_remaining > 0


\* C15: a stream of a non-empty entry goes from primed through streaming to
\* StopIteration or ChecksumIncorrectError in finitely many pulls: every pull
\* made while out_remaining > 0 strictly lowers out_remaining, also when the
\* decoder hands back fewer bytes than asked for, or none.
C15_PullDecreases ==
  [][\A s \in AllStreams :
       (Built(s) /\ stream[s].out_remaining > 0 /\ stream'[s] # stream[s]
          /\ moves' = moves) =>
         stream'[s].out_remaining < stream[s].out_remaining]_vars


\* C16: the running checksum starts at 0 and, after every pull, is the
\* checksum folded in order over exactly the bytes emitted so far; so it
\* changes only when a chunk is emitted and is never started again.
C16_ChecksumFold ==
  \A s \in AllStreams :
    Built(s) => stream[s].crc32 = calculate_crc32(stream[s].emitted, 0)

\* C16 witness: a pull has just emitted a chunk on top of earlier ones.
C16_Witness ==
  \E s \in AllStreams :
    /\ Built(s) /\ stream[s].ret = "chunk"
    /\ 0 < stream[s].retLen /\ stream[s].retLen < Len(stream[s].emitted)


\* Stream s with progress reporting switched off.
Quiet(s) == [stream[s] EXCEPT !.report_progress = FALSE]

\* The step is a pull on stream s: the stream changes, and it is neither
\* iter(stream) nor the construction of the extractor's next stream.
Pulled(s) ==
  /\ Built(s)
  /\ stream'[s] # stream[s]
  /\ stream'[s].start_time = stream[s].start_time
  /\ Len(sinks') = Len(sinks)
  /\ moves' = moves

\* C17: progress reporting never affects decoding: a pull on a stream with
\* report_progress, made through iteration or by next directly, leaves the
\* chunk, out_remaining, crc32, the outcome and the handle as the same pull
\* leaves them with report_progress off.
C17_ProgressNeutral ==
  [][\A s \in AllStreams :
       (Pulled(s) /\ stream[s].report_progress) =>
         \E k \in 0..Readable(archive, fp[HandleOf(s)], Request(stream[s])) :
           LET r == __next__(archive, Quiet(s), fp[HandleOf(s)], k)
           IN /\ stream'[s] = [r.stream EXCEPT !.report_progress = TRUE]
              /\ fp'[HandleOf(s)] = r.fp]_vars


\* C18: in every state reached by pulls and calls of move, out_remaining
\* lies between 0 and the entry's uncompressed length (the decoder being
\* asked only while it is above 0).
C18_RemainingInRange ==
  \A s \in AllStreams :
    Built(s) =>
      /\ 0 <= stream[s].out_remaining
      /\ stream[s].out_remaining <= File(s).uncompressed


\* C19: the ended states of a stream are absorbing: once a pull has raised
\* StopIteration or ChecksumIncorrectError, a later pull raises the same
\* again, emits nothing and leaves out_remaining, crc32 and the handle's
\* position as they were.
C19_Absorbing ==
  [][\A s \in AllStreams :
       (Ended(s) /\ Len(sinks') = Len(sinks)) =>
         /\ stream'[s] = stream[s]
         /\ fp'[HandleOf(s)] = fp[HandleOf(s)]]_vars

\* C19 witness: streams have ended in each of the two ways.
C19_Witness ==
  /\ stream[0].ret = "StopIteration"
  /\ stream[1].ret = "ChecksumIncorrectError"
  /\ stream[1].emitted # << >>


\* C20: for any catalog, one holding a file name in more than one folder
\* included, the folder whose start offset move_fp_to_correct_spot seeks to
\* is the folder whose file list it walks, the entry's own
\* (archiveFile.folder).
C20_SameFolder ==
  \A s \in AllStreams :
    (Built(s) /\ File(s).uncompressed > 0) =>
      PositionFolder(archive, File(s).filename) = File(s).folder

====
